---- MODULE Spec2Model ----
(***************************************************************************)
(* A model of src/autograd.py: expression nodes live on a heap (Python     *)
(* objects with identity, whose attributes a and b simplify() reassigns),  *)
(* a client builds nodes, and calls forward, simplify, gradient on them.   *)
(***************************************************************************)
EXTENDS Integers, Sequences, FiniteSets, TLC

(***************************************************************************)
(* Bounds of the model.                                                    *)
(***************************************************************************)
\* objects the client constructs before its first call (arithmetic model)
MaxNodes == 4
\* objects the client constructs before its first call (seven-operator model)
MaxNodesAll == 3
\* calls of forward/simplify/gradient in one behaviour of the seven-operator model
MaxCalls == 2
\* objects the client constructs before its first call (literal-operand model)
MaxNodesLit == 3
\* magnitude above which a number is not computed by the model
MaxMagnitude == 16384

\* values of the constants the client writes
ConstVals == {-1, 0, 1, 2}
\* names of the variables the client declares
Names == {"x", "y"}
\* values a point assigns to a variable
PointVals == {-1, 0, 2}

ArithKinds == {"Add", "Sub", "Mult"}
BinaryKinds == {"Add", "Sub", "Mult", "Div", "Pow"}
UnaryKinds == {"Ln", "Exp"}

VARIABLES heap, built, calls, last, prev

vars == <<heap, built, calls, last, prev>>

(***************************************************************************)
(* Numbers.  A Python int or float is modelled exactly when it is a        *)
(* dyadic rational n/d (d a power of two): [n, d] in lowest terms.  Flt    *)
(* stands for a float the model does not compute (an irrational result,    *)
(* or a quotient a float only approximates).                               *)
(***************************************************************************)
Num(n, d) == [n |-> n, d |-> d]
Int1(n) == Num(n, 1)
Flt == Num(0, 0)
IsFlt(v) == v.d = 0
IsZero(v) == v.d # 0 /\ v.n = 0
IsOne(v) == v.d # 0 /\ v.n = v.d
IsInteger(v) == v.d = 1
Abs(i) == IF i < 0 THEN -i ELSE i

RECURSIVE GCD(_, _)
GCD(a, b) == IF b = 0 THEN a ELSE GCD(b, a % b)

RECURSIVE IsPow2(_)
IsPow2(d) == d = 1 \/ (d > 1 /\ d % 2 = 0 /\ IsPow2(d \div 2))

\* outcome of a computation: a value, or the exception it raises
Ok(v) == [err |-> "none", v |-> v]
Raise(e) == [err |-> e, v |-> Flt]

\* the number n/d (d # 0) as the program holds it
Rat(n, d) ==
  LET s == IF d < 0 THEN -1 ELSE 1
      g == GCD(Abs(n), Abs(d))
      nn == (s * n) \div g
      dd == (s * d) \div g
  IN IF Abs(nn) > MaxMagnitude \/ dd > MaxMagnitude THEN Raise("Unmodelled")
     ELSE IF IsPow2(dd) THEN Ok(Num(nn, dd))
     ELSE Ok(Flt)

\* acc * a ** k for numbers acc, a with |a| # 0, 1 and an integer k >= 0
RECURSIVE PowNat(_, _, _)
PowNat(acc, a, k) ==
  IF k = 0 THEN Ok(acc)
  ELSE LET r == Rat(acc.n * a.n, acc.d * a.d)
       IN IF r.err # "none" \/ IsFlt(r.v) THEN r ELSE PowNat(r.v, a, k - 1)

\* Python's a ** b on numbers
PyPow(a, b) ==
  IF IsZero(b) THEN Ok(Int1(1))
  ELSE IF IsFlt(a) \/ IsFlt(b) THEN Raise("Unmodelled")
  ELSE IF IsOne(a) THEN Ok(Int1(1))
  ELSE IF IsZero(a) THEN (IF b.n > 0 THEN Ok(Int1(0)) ELSE Raise("ZeroDivisionError"))
  ELSE IF ~IsInteger(b) THEN (IF a.n > 0 THEN Ok(Flt) ELSE Raise("Unmodelled"))
  ELSE IF a = Int1(-1) THEN Ok(Int1(IF b.n % 2 = 0 THEN 1 ELSE -1))
  ELSE IF b.n > 0 THEN PowNat(Int1(1), a, b.n)
  ELSE PowNat(Int1(1), Num(IF a.n < 0 THEN -a.d ELSE a.d, Abs(a.n)), -b.n)

\* the arithmetic of the five binary operators' forward()
Arith(kind, a, b) ==
  CASE kind = "Add" -> IF IsFlt(a) \/ IsFlt(b) THEN Ok(Flt)
                       ELSE Rat(a.n * b.d + b.n * a.d, a.d * b.d)
    [] kind = "Sub" -> IF IsFlt(a) \/ IsFlt(b) THEN Ok(Flt)
                       ELSE Rat(a.n * b.d - b.n * a.d, a.d * b.d)
    [] kind = "Mult" -> IF IsFlt(a) \/ IsFlt(b) THEN Ok(Flt)
                        ELSE Rat(a.n * b.n, a.d * b.d)
    [] kind = "Div" -> IF IsZero(b) THEN Raise("ZeroDivisionError")
                       ELSE IF IsFlt(b) THEN Raise("Unmodelled")
                       ELSE IF IsFlt(a) THEN Ok(Flt)
                       ELSE Rat(a.n * b.d, a.d * b.n)
    [] kind = "Pow" -> PyPow(a, b)

\* math.log and math.exp
MathLog(a) ==
  IF IsFlt(a) THEN Raise("Unmodelled")
  ELSE IF a.n <= 0 THEN Raise("ValueError")
  ELSE IF IsOne(a) THEN Ok(Int1(0))
  ELSE Ok(Flt)

MathExp(a) == IF IsZero(a) THEN Ok(Int1(1)) ELSE Ok(Flt)

(***************************************************************************)
(* The heap.  An object is a node (C, Variable, a BinaryOp or UnaryOp      *)
(* subclass) or a raw Python int that was stored where a node belongs.     *)
(* Attributes a and b hold object ids (0: no such attribute).              *)
(***************************************************************************)
RECURSIVE forward(_, _, _)
RECURSIVE variables(_, _)
RECURSIVE simplify(_, _)
RECURSIVE gradient(_, _, _)

Obj(kind, a, b, value, name) ==
  [kind |-> kind, a |-> a, b |-> b, value |-> value, name |-> name]

C(value) == Obj("C", 0, 0, value, "")
Variable(name) == Obj("Variable", 0, 0, Flt, name)
BinaryOp(kind, a, b) == Obj(kind, a, b, Flt, "")
UnaryOp(kind, a) == Obj(kind, a, 0, Flt, "")
PyInt(value) == Obj("int", 0, 0, value, "")

IsNode(h, n) == h[n].kind # "int"

\* the outcome of an expression that yields an object: the heap after it,
\* the object, or the exception raised
Ret(h, r) == [h |-> h, r |-> r, err |-> "none"]
Exc(h, e) == [h |-> h, r |-> 0, err |-> e]
New(h, o) == Ret(Append(h, o), Len(h) + 1)

SetA(h, n, r) == [h EXCEPT ![n].a = r]
SetB(h, n, r) == [h EXCEPT ![n].b = r]

\* Variable.__eq__ (and __hash__): equal names
Variable_eq_identity(h, i, j) == i = j
Variable_eq(h, i, j) == h[i].name = h[j].name

\* variable_assignments[self]: p maps the names of its key Variables to numbers
Variable_forward_default(o, p) == IF o.name \in DOMAIN p THEN Ok(p[o.name]) ELSE Ok(Int1(0))
Variable_forward(o, p) == IF o.name \in DOMAIN p THEN Ok(p[o.name]) ELSE Raise("KeyError")

forward(h, n, p) ==
  LET o == h[n] IN
  CASE o.kind = "int" -> Raise("AttributeError")
    [] o.kind = "C" -> Ok(o.value)
    [] o.kind = "Variable" -> Variable_forward(o, p)
    [] o.kind \in BinaryKinds ->
         LET ra == forward(h, o.a, p) IN
         IF ra.err # "none" THEN ra
         ELSE LET rb == forward(h, o.b, p) IN
              IF rb.err # "none" THEN rb ELSE Arith(o.kind, ra.v, rb.v)
    [] o.kind = "Ln" ->
         LET ra == forward(h, o.a, p) IN
         IF ra.err # "none" THEN ra ELSE MathLog(ra.v)
    [] o.kind = "Exp" ->
         LET ra == forward(h, o.a, p) IN
         IF ra.err # "none" THEN ra ELSE MathExp(ra.v)

\* a set of Variables, one per name: s | t
SetUnion(h, s, t) == s \cup {j \in t : \A i \in s : ~Variable_eq(h, i, j)}

\* the property `variables`: [err, s], s a set of Variable objects
variables(h, n) ==
  LET o == h[n] IN
  CASE o.kind = "int" -> [err |-> "AttributeError", s |-> {}]
    [] o.kind = "C" -> [err |-> "none", s |-> {}]
    [] o.kind = "Variable" -> [err |-> "none", s |-> {n}]
    [] o.kind \in BinaryKinds ->
         LET va == variables(h, o.a) IN
         IF va.err # "none" THEN va
         ELSE LET vb == variables(h, o.b) IN
              IF vb.err # "none" THEN vb
              ELSE [err |-> "none", s |-> SetUnion(h, va.s, vb.s)]
    [] o.kind \in UnaryKinds -> variables(h, o.a)

\* C(v) for the outcome f of forward
FoldValue(h, f) == IF f.err # "none" THEN Exc(h, f.err) ELSE New(h, C(f.v))

\* C(self.forward({})) for a node n
Fold(h, n) == FoldValue(h, forward(h, n, <<>>))

\* self.a = r, for the outcome r of self.a.simplify()
StoreA(r, n) == IF r.err # "none" THEN r ELSE Ret(SetA(r.h, n, r.r), n)

\* self.b = r, for the outcome r of self.b.simplify()
StoreB(r, n) == IF r.err # "none" THEN r ELSE Ret(SetB(r.h, n, r.r), n)

\* self.a = self.a.simplify()
SimplifyA(h, n) == StoreA(simplify(h, h[n].a), n)

\* self.b = self.b.simplify()
SimplifyB(h, n) == StoreB(simplify(h, h[n].b), n)

\* self.b = self.b.simplify(), after the outcome r of self.a = self.a.simplify()
ThenSimplifyB(r, n) == IF r.err # "none" THEN r ELSE SimplifyB(r.h, n)

\* self.a = self.a.simplify(); self.b = self.b.simplify()
SimplifyChildren(h, n) == ThenSimplifyB(SimplifyA(h, n), n)

\* BinaryOp.simplify
BinaryOp_simplify(h, n) ==
  IF h[h[n].a].kind = "C" /\ h[h[n].b].kind = "C" THEN Fold(h, n)
  ELSE SimplifyChildren(h, n)

\* UnaryOp.simplify
UnaryOp_simplify(h, n) == SimplifyA(h, n)

\* Mult(k, x) for the outcome k of C((c * c2).forward({}))
HoistOnto(k, x) == IF k.err # "none" THEN k ELSE New(k.h, BinaryOp("Mult", k.r, x))

\* Mult(C((c * c2).forward({})), x) that keeps the constant factor c2 for x
Hoist_wrong(h, c, c2, x) ==
  HoistOnto(Fold(Append(h, BinaryOp("Mult", c, c2)), Len(h) + 1), c2)

\* Mult(C((c * c2).forward({})), x) for C nodes c, c2 and a node x; the
\* product c * c2 is a new object
Hoist(h, c, c2, x) ==
  HoistOnto(Fold(Append(h, BinaryOp("Mult", c, c2)), Len(h) + 1), x)

\* the rule of Mult.simplify that applies to self.a = a and self.b = b
\* (1 to 4, in the order of the code), 0 when none does
MultRule(h, a, b) ==
  IF h[a].kind = "Mult" /\ h[b].kind = "C"
  THEN (IF h[h[a].a].kind = "C" THEN 1 ELSE IF h[h[a].b].kind = "C" THEN 2 ELSE 0)
  ELSE IF h[b].kind = "Mult" /\ h[a].kind = "C"
  THEN (IF h[h[b].a].kind = "C" THEN 3 ELSE IF h[h[b].b].kind = "C" THEN 4 ELSE 0)
  ELSE 0

\* Mult.simplify after its first two statements, self.a = a and self.b = b
Mult_rules(h, n, a, b, rule) ==
  CASE rule = 1 -> Hoist(h, b, h[a].a, h[a].b)
    [] rule = 2 -> Hoist(h, b, h[a].b, h[a].a)
    [] rule = 3 -> Hoist(h, a, h[b].a, h[b].b)
    [] rule = 4 -> Hoist(h, a, h[b].b, h[b].a)
    [] OTHER -> BinaryOp_simplify(h, n)

\* Mult.simplify after the outcome r of its first two statements
Mult_simplified(r, n) ==
  IF r.err # "none" THEN r
  ELSE Mult_rules(r.h, n, r.h[n].a, r.h[n].b, MultRule(r.h, r.h[n].a, r.h[n].b))

\* Mult.simplify
Mult_simplify(h, n) == Mult_simplified(SimplifyChildren(h, n), n)

\* n.simplify(), by the class of n
simplify(h, n) ==
  LET k == h[n].kind IN
  CASE k = "int" -> Exc(h, "AttributeError")
    [] k \in {"C", "Variable"} -> Ret(h, n)
    [] k = "Mult" -> Mult_simplify(h, n)
    [] k \in BinaryKinds \ {"Mult"} -> BinaryOp_simplify(h, n)
    [] k \in UnaryKinds -> UnaryOp_simplify(h, n)

(***************************************************************************)
(* Gradient maps: Python dicts keyed by Variable objects, as sequences of  *)
(* [k, v] entries in insertion order, keys compared by Variable.__eq__.    *)
(***************************************************************************)
Keys(g) == [i \in 1..Len(g) |-> g[i].k]
Has(h, g, var) == \E i \in 1..Len(g) : Variable_eq(h, g[i].k, var)
Index(h, g, var) == CHOOSE i \in 1..Len(g) : Variable_eq(h, g[i].k, var)
Get(h, g, var) == g[Index(h, g, var)].v
Put(h, g, var, val) ==
  IF Has(h, g, var) THEN [g EXCEPT ![Index(h, g, var)].v = val]
  ELSE Append(g, [k |-> var, v |-> val])

\* the outcome of an expression that yields a gradient map
GRet(h, g) == [h |-> h, g |-> g, err |-> "none"]
GExc(h, e) == [h |-> h, g |-> <<>>, err |-> e]

\* `if upstream_gradient`: None (0) is false, a node is true, an int is true unless 0
Truthy(h, up) == up # 0 /\ (h[up].kind = "int" => ~IsZero(h[up].value))

\* a OP b through the overloaded operators of Node (and of int, for a raw a)
Operator(h, kind, a, b) ==
  IF IsNode(h, a) THEN New(h, BinaryOp(kind, a, b))
  ELSE IF ~IsNode(h, b) THEN Exc(h, "Unmodelled")
  ELSE IF kind = "Pow" THEN Exc(h, "TypeError")
  ELSE New(h, BinaryOp(kind, a, b))

\* result[var] = ..., one pass of the loop of merge_grads
merge_step(h, grad1, grad2, var, res) ==
  IF Has(h, grad1, var) /\ Has(h, grad2, var)
  THEN GRet(Append(h, BinaryOp("Add", Get(h, grad1, var), Get(h, grad2, var))),
            Put(h, res, var, Len(h) + 1))
  ELSE IF Has(h, grad1, var) THEN GRet(h, Put(h, res, var, Get(h, grad1, var)))
  ELSE GRet(h, Put(h, res, var, Get(h, grad2, var)))

\* the loop of merge_grads over keys[i..], heap and result so far in acc
RECURSIVE merge_loop(_, _, _, _, _)
merge_loop(acc, grad1, grad2, keys, i) ==
  IF i > Len(keys) THEN acc
  ELSE merge_loop(merge_step(acc.h, grad1, grad2, keys[i], acc.g), grad1, grad2, keys, i + 1)

\* merge_grads that forgets the variables only its second argument has
merge_grads_first(h, grad1, grad2) == merge_loop(GRet(h, <<>>), grad1, grad2, Keys(grad1), 1)

\* Node.merge_grads
merge_grads(h, grad1, grad2) ==
  merge_loop(GRet(h, <<>>), grad1, grad2, Keys(grad1) \o Keys(grad2), 1)

\* the node broadcast_mult simplifies for the entry e: value, or e * value
broadcast_operand(h, e, value) ==
  IF h[e].kind = "C" /\ IsFlt(h[e].value) THEN Exc(h, "Unmodelled")
  ELSE IF h[e].kind = "C" /\ IsOne(h[e].value) THEN Ret(h, value)
  ELSE Operator(h, "Mult", e, value)

\* m.simplify() for the outcome m of building a node
Simplified(m) == IF m.err # "none" THEN m ELSE simplify(m.h, m.r)

\* key: r, for the outcome r of the value expression of the comprehension
broadcast_put(r, key, res) ==
  IF r.err # "none" THEN GExc(r.h, r.err) ELSE GRet(r.h, Put(r.h, res, key, r.r))

\* one entry of the comprehension of broadcast_mult
broadcast_step(h, e, key, value, res) ==
  broadcast_put(Simplified(broadcast_operand(h, e, value)), key, res)

\* the comprehension of broadcast_mult over gradient[i..], heap and result
\* so far in acc
RECURSIVE broadcast_loop(_, _, _, _)
broadcast_loop(acc, grad, value, i) ==
  IF acc.err # "none" \/ i > Len(grad) THEN acc
  ELSE broadcast_loop(broadcast_step(acc.h, grad[i].v, grad[i].k, value, acc.g),
                      grad, value, i + 1)

\* Node.broadcast_mult
broadcast_mult(h, grad, value) == broadcast_loop(GRet(h, <<>>), grad, value, 1)

\* `self.broadcast_mult(local_grad, upstream) if upstream else local_grad`
Chain(local, up) ==
  IF local.err # "none" THEN local
  ELSE IF Truthy(local.h, up) THEN broadcast_mult(local.h, local.g, up)
  ELSE local

\* merge_grads of the outcomes of two gradient() calls, the second made
\* on the heap the first left
Merge(ga, gb) == IF gb.err # "none" THEN gb ELSE merge_grads(gb.h, ga.g, gb.g)

\* n.gradient(upstream_gradient=u) for the outcome u of building the upstream
GradientUnder(u, n) == IF u.err # "none" THEN GExc(u.h, u.err) ELSE gradient(u.h, n, u.r)

\* m.gradient(upstream_gradient=up) for the outcome m of building a node
GradientOf(m, up) == IF m.err # "none" THEN GExc(m.h, m.err) ELSE gradient(m.h, m.r, up)

\* a OP r for the outcome r of building the right operand
OperatorOn(r, kind, a) == IF r.err # "none" THEN r ELSE Operator(r.h, kind, a, r.r)

\* Variable.gradient; C(1) is a new object
Variable_gradient(h, n, up) ==
  Chain(GRet(Append(h, C(Int1(1))), <<[k |-> n, v |-> Len(h) + 1]>>), up)

\* merge_grads(ga, self.b.gradient()) for the outcome ga of self.a.gradient()
Add_merge(ga, n) ==
  IF ga.err # "none" THEN ga ELSE Merge(ga, gradient(ga.h, ga.h[n].b, 0))

\* Add.gradient
Add_gradient(h, n, up) == Chain(Add_merge(gradient(h, h[n].a, 0), n), up)

\* Mult(C(-1), self.b); C(-1) is a new object
Negated(h, n) ==
  New(Append(h, C(Int1(-1))), BinaryOp("Mult", Len(h) + 1, h[n].b))

\* merge_grads(ga, Mult(C(-1), self.b).gradient()) for the outcome ga of
\* self.a.gradient()
Sub_merge(ga, n) ==
  IF ga.err # "none" THEN ga ELSE Merge(ga, GradientOf(Negated(ga.h, n), 0))

\* Sub.gradient without the factor -1 on the subtrahend
Sub_gradient_plus(h, n, up) == Chain(Add_merge(gradient(h, h[n].a, 0), n), up)

\* Sub.gradient
Sub_gradient(h, n, up) == Chain(Sub_merge(gradient(h, h[n].a, 0), n), up)

\* merge_grads(ga, self.b.gradient(upstream_gradient=self.a)) for the outcome
\* ga of self.a.gradient(upstream_gradient=self.b)
Mult_merge(ga, n) ==
  IF ga.err # "none" THEN ga ELSE Merge(ga, gradient(ga.h, ga.h[n].b, ga.h[n].a))

\* Mult.gradient
Mult_gradient(h, n, up) == Chain(Mult_merge(gradient(h, h[n].a, h[n].b), n), up)

\* self.a * self.b ** C(-1); C(-1) is a new object
Quotient(h, n) ==
  OperatorOn(Operator(Append(h, C(Int1(-1))), "Pow", h[n].b, Len(h) + 1), "Mult", h[n].a)

\* Div.gradient
Div_gradient(h, n, up) == GradientOf(Quotient(h, n), up)

\* Div(C(1), self.a); C(1) is a new object
Reciprocal(h, n) ==
  New(Append(h, C(Int1(1))), BinaryOp("Div", Len(h) + 1, h[n].a))

\* Ln.gradient
Ln_gradient(h, n, up) == Chain(GradientUnder(Reciprocal(h, n), h[n].a), up)

\* Exp.gradient
Exp_gradient(h, n, up) ==
  Chain(GradientUnder(New(h, UnaryOp("Exp", h[n].a)), h[n].a), up)

\* self.b*self.a**(self.b - C(1)), with the offset of the exponent given;
\* the constant is a new object
PowFactor(h, n, off) ==
  OperatorOn(OperatorOn(Operator(Append(h, C(Int1(off))), "Sub", h[n].b, Len(h) + 1),
                        "Pow", h[n].a),
             "Mult", h[n].b)

\* pw * Ln(a) for the outcome pw of self.a ** self.b; Ln(a) is a new object
TimesLn(pw, a) ==
  IF pw.err # "none" THEN pw
  ELSE Operator(Append(pw.h, UnaryOp("Ln", a)), "Mult", pw.r, Len(pw.h) + 1)

\* self.a ** self.b * Ln(self.a)
LogFactor(h, n) == TimesLn(Operator(h, "Pow", h[n].a, h[n].b), h[n].a)

\* merge_grads(ga, self.b.gradient(upstream_gradient=self.a ** self.b * Ln(self.a)))
\* for the outcome ga of self.a.gradient(...)
Pow_merge(ga, n) ==
  IF ga.err # "none" THEN ga
  ELSE Merge(ga, GradientUnder(LogFactor(ga.h, n), ga.h[n].b))

\* the two recursive calls of Pow.gradient, merged and chained
PowRule(h, n, up, off) ==
  Chain(Pow_merge(GradientUnder(PowFactor(h, n, off), h[n].a), n), up)

\* Pow.gradient that keeps the exponent v in v*u^v
Pow_gradient_same(h, n, up) == PowRule(h, n, up, 0)

\* Pow.gradient
Pow_gradient(h, n, up) == PowRule(h, n, up, 1)

\* n.gradient(up), by the class of n; up = 0 is None
gradient(h, n, up) ==
  LET k == h[n].kind IN
  CASE k = "int" -> GExc(h, "AttributeError")
    [] k = "C" -> GRet(h, <<>>)
    [] k = "Variable" -> Variable_gradient(h, n, up)
    [] k = "Add" -> Add_gradient(h, n, up)
    [] k = "Sub" -> Sub_gradient(h, n, up)
    [] k = "Mult" -> Mult_gradient(h, n, up)
    [] k = "Div" -> Div_gradient(h, n, up)
    [] k = "Pow" -> Pow_gradient(h, n, up)
    [] k = "Ln" -> Ln_gradient(h, n, up)
    [] k = "Exp" -> Exp_gradient(h, n, up)

(***************************************************************************)
(* The client.  It constructs objects, then calls the operations; `last`   *)
(* records the latest call: its arguments, the heap before it (pre) and    *)
(* what it returned or raised; `prev` records the call before it.          *)
(***************************************************************************)
NoCall ==
  [op |-> "none", n |-> 0, up |-> 0, p |-> <<>>, pre |-> <<>>,
   ret |-> 0, g |-> <<>>, val |-> Flt, err |-> "none"]

\* the points: each assigns numbers to some of the names
Points == UNION {[s -> {Int1(v) : v \in PointVals}] : s \in SUBSET Names}
FullPoints == [Names -> {Int1(v) : v \in PointVals}]

Init ==
  /\ heap = <<>>
  /\ built = 0
  /\ calls = 0
  /\ last = NoCall
  /\ prev = NoCall

Construct(o) ==
  /\ heap' = Append(heap, o)
  /\ built' = built + 1
  /\ UNCHANGED <<calls, last, prev>>

\* C(value)
NewC(maxn) ==
  /\ calls = 0 /\ built < maxn
  /\ \E v \in ConstVals : Construct(C(Int1(v)))

\* Variable(name)
NewVariable(maxn) ==
  /\ calls = 0 /\ built < maxn
  /\ \E name \in Names : Construct(Variable(name))

\* BinaryOp.__init__ through a subclass: Add(a, b), Sub(a, b), ...
NewBinary(kinds, maxn) ==
  /\ calls = 0 /\ built < maxn
  /\ \E kind \in kinds, a \in 1..built, b \in 1..built :
       /\ IsNode(heap, a) /\ IsNode(heap, b)
       /\ Construct(BinaryOp(kind, a, b))

\* UnaryOp.__init__ through a subclass: Ln(a), Exp(a)
NewUnary(maxn) ==
  /\ calls = 0 /\ built < maxn
  /\ \E kind \in UnaryKinds, a \in 1..built :
       /\ IsNode(heap, a)
       /\ Construct(UnaryOp(kind, a))

\* the objects a call is made on: the expression the client built last, and
\* what the latest call returned
Targets ==
  {n \in {built, last.ret} \cup {last.g[i].v : i \in 1..Len(last.g)} : n # 0}

\* a call may follow construction, or a call that built or changed objects
MayCall(maxc) == calls < maxc /\ last.op # "forward"

\* the call returned or raised: `last` records it, `prev` the call before
Called(op, n, up, p, h, ret, g, val, err) ==
  /\ heap' = h
  /\ last' = [op |-> op, n |-> n, up |-> up, p |-> p, pre |-> heap,
              ret |-> ret, g |-> g, val |-> val, err |-> err]
  /\ prev' = last
  /\ calls' = calls + 1
  /\ UNCHANGED built

ForwardCalled(n, p, f) == Called("forward", n, 0, p, heap, 0, <<>>, f.v, f.err)
SimplifyCalled(n, r) == Called("simplify", n, 0, <<>>, r.h, r.r, <<>>, Flt, r.err)
GradientCalled(n, up, r) == Called("gradient", n, up, <<>>, r.h, 0, r.g, Flt, r.err)

\* n.forward(p)
CallForward(maxc) ==
  /\ MayCall(maxc)
  /\ \E n \in Targets, p \in Points : ForwardCalled(n, p, forward(heap, n, p))

\* n.simplify()
CallSimplify(maxc) ==
  /\ MayCall(maxc)
  /\ \E n \in Targets : SimplifyCalled(n, simplify(heap, n))

\* n.gradient() and n.gradient(up)
CallGradient(maxc) ==
  /\ MayCall(maxc)
  /\ \E n \in Targets, up \in 0..built : GradientCalled(n, up, gradient(heap, n, up))

\* expressions over integer constants, variables, Add, Sub and Mult; one call
Next ==
  \/ NewC(MaxNodes)
  \/ NewVariable(MaxNodes)
  \/ NewBinary(ArithKinds, MaxNodes)
  \/ CallSimplify(1)
  \/ CallGradient(1)

Spec == Init /\ [][Next]_vars

\* expressions over all seven operators; forward once, which changes nothing,
\* or MaxCalls calls of simplify and gradient
NextAll ==
  \/ NewC(MaxNodesAll)
  \/ NewVariable(MaxNodesAll)
  \/ NewBinary(BinaryKinds, MaxNodesAll)
  \/ NewUnary(MaxNodesAll)
  \/ CallForward(1)
  \/ CallSimplify(MaxCalls)
  \/ CallGradient(MaxCalls)

SpecAll == Init /\ [][NextAll]_vars

\* Node.__add__, __sub__, __mul__, __truediv__, __pow__ on two nodes: a OP b
ApplyOperator(maxn) ==
  /\ calls = 0 /\ built < maxn
  /\ \E kind \in BinaryKinds, a \in 1..built, b \in 1..built :
       /\ IsNode(heap, a) /\ IsNode(heap, b)
       /\ heap' = Operator(heap, kind, a, b).h
       /\ built' = built + 1
       /\ UNCHANGED <<calls, last, prev>>

\* the node `a OP b` where one operand is a Python int written as a literal
Literal(kind, a, b, h) ==
  /\ heap' = Append(h, BinaryOp(kind, a, b))
  /\ built' = Len(h) + 1
  /\ last' = [NoCall EXCEPT !.op = "literal", !.ret = Len(h) + 1, !.pre = heap]
  /\ prev' = last
  /\ UNCHANGED calls

\* Node.__add__ .. Node.__pow__ with a literal on the right: node OP lit
LiteralRight(maxn) ==
  /\ calls = 0 /\ built + 1 < maxn
  /\ \E kind \in BinaryKinds, a \in 1..built, lit \in ConstVals :
       /\ IsNode(heap, a)
       /\ Literal(kind, a, Len(heap) + 1, Append(heap, PyInt(Int1(lit))))

\* Node.__radd__ .. Node.__rsub__, reached from a literal on the left: lit OP node
LiteralLeft(maxn) ==
  /\ calls = 0 /\ built + 1 < maxn
  /\ \E kind \in BinaryKinds \ {"Pow"}, b \in 1..built, lit \in ConstVals :
       /\ IsNode(heap, b)
       /\ Literal(kind, Len(heap) + 1, b, Append(heap, PyInt(Int1(lit))))

\* expressions written with operators and literals; one call
NextLit ==
  \/ NewC(MaxNodesLit)
  \/ NewVariable(MaxNodesLit)
  \/ ApplyOperator(MaxNodesLit)
  \/ LiteralRight(MaxNodesLit)
  \/ LiteralLeft(MaxNodesLit)
  \/ CallForward(1)
  \/ CallSimplify(1)
  \/ CallGradient(1)

SpecLit == Init /\ [][NextLit]_vars

(***************************************************************************)
(* What the properties speak of.                                           *)
(***************************************************************************)
PyErrors == {"KeyError", "ZeroDivisionError", "ValueError", "AttributeError", "TypeError"}

\* ra OP rb on outcomes
Lift(kind, ra, rb) ==
  IF ra.err # "none" THEN ra ELSE IF rb.err # "none" THEN rb ELSE Arith(kind, ra.v, rb.v)

\* the partial derivative of node n with respect to the variable `name` at p,
\* by the sum and product rules on the tree of n in heap h
RECURSIVE Deriv(_, _, _, _)
Deriv(h, n, name, p) ==
  LET o == h[n] IN
  CASE o.kind = "C" -> Ok(Int1(0))
    [] o.kind = "Variable" -> Ok(Int1(IF o.name = name THEN 1 ELSE 0))
    [] o.kind \in {"Add", "Sub"} -> Lift(o.kind, Deriv(h, o.a, name, p), Deriv(h, o.b, name, p))
    [] o.kind = "Mult" ->
         Lift("Add", Lift("Mult", Deriv(h, o.a, name, p), forward(h, o.b, p)),
                     Lift("Mult", forward(h, o.a, p), Deriv(h, o.b, name, p)))

\* the tree rooted at n: kinds, constant values, names and children
RECURSIVE Tree(_, _)
Tree(h, n) ==
  IF n = 0 THEN <<>>
  ELSE <<h[n].kind, h[n].value, h[n].name, Tree(h, h[n].a), Tree(h, h[n].b)>>

\* the objects of the tree rooted at n
RECURSIVE Reach(_, _)
Reach(h, n) == IF n = 0 THEN {} ELSE {n} \cup Reach(h, h[n].a) \cup Reach(h, h[n].b)

NamesOf(h, s) == {h[i].name : i \in s}
VarNames(h, n) == NamesOf(h, variables(h, n).s)
KeyNames(h, g) == {h[g[i].k].name : i \in 1..Len(g)}

\* two outcomes agree, where the model computes both
Agree(got, want) == (got.err # "Unmodelled" /\ want.err # "Unmodelled") => got = want

\* the upstream factor's value at p (1 when there is none)
UpValue(h, up, p) == IF up = 0 THEN Ok(Int1(1)) ELSE forward(h, up, p)

\* C1: simplify() on an expression without free variables whose forward({})
\* succeeds returns a C node holding that value.
ConstantFolding ==
  (/\ last.op = "simplify"
   /\ VarNames(last.pre, last.n) = {}
   /\ forward(last.pre, last.n, <<>>).err = "none")
  => /\ last.err = "none"
     /\ heap[last.ret].kind = "C"
     /\ heap[last.ret].value = forward(last.pre, last.n, <<>>).v

\* C2: over integer constants, variables, Add, Sub and Mult, gradient()
\* returns, and every entry of f.gradient(u) evaluates at every point to the
\* exact partial derivative of f times the value of u (1 without u); every
\* variable of f has an entry.
GradientExact ==
  last.op = "gradient" =>
    /\ last.err = "none"
    /\ \A v \in variables(last.pre, last.n).s : Has(heap, last.g, v)
    /\ \A i \in 1..Len(last.g), p \in FullPoints :
         Agree(forward(heap, last.g[i].v, p),
               Lift("Mult", Deriv(last.pre, last.n, heap[last.g[i].k].name, p),
                            UpValue(last.pre, last.up, p)))

\* a gradient of a product of two different variable subtrees under an upstream factor
GradientExactWitness ==
  /\ last.op = "gradient" /\ last.err = "none" /\ last.up # 0
  /\ last.pre[last.n].kind = "Mult"
  /\ Len(last.g) = Cardinality(Names)
  /\ \E p \in FullPoints : ~IsZero(forward(heap, last.g[1].v, p).v)

\* C4: a gradient map holds one entry per variable name, whichever Variable
\* objects the expression uses; the entry is found with any Variable of that
\* name and evaluates to the sum of the contributions of all its occurrences.
VariableIdentity ==
  (last.op = "gradient" /\ last.err = "none") =>
    /\ \A i, j \in 1..Len(last.g) :
         heap[last.g[i].k].name = heap[last.g[j].k].name => i = j
    /\ \A v \in 1..Len(last.pre) :
         (last.pre[v].kind = "Variable" /\ last.pre[v].name \in VarNames(last.pre, last.n)) =>
           /\ Has(heap, last.g, v)
           /\ \A p \in FullPoints :
                Agree(forward(heap, Get(heap, last.g, v), p),
                      Lift("Mult", Deriv(last.pre, last.n, last.pre[v].name, p),
                                   UpValue(last.pre, last.up, p)))

\* Add(Variable("x"), Variable("x")) of two objects: one entry, found with a
\* third Variable("x"), evaluating to 2
VariableIdentityWitness ==
  /\ last.op = "gradient" /\ last.err = "none" /\ last.up = 0
  /\ last.pre[last.n].kind = "Add"
  /\ last.pre[last.n].a # last.pre[last.n].b
  /\ last.pre[last.pre[last.n].a].kind = "Variable"
  /\ last.pre[last.pre[last.n].b].kind = "Variable"
  /\ last.pre[last.pre[last.n].a].name = last.pre[last.pre[last.n].b].name
  /\ Len(last.g) = 1
  /\ \E v \in 1..Len(last.pre) :
       /\ v \notin {last.pre[last.n].a, last.pre[last.n].b}
       /\ last.pre[v].kind = "Variable"
       /\ Has(heap, last.g, v)
       /\ \A p \in FullPoints : forward(heap, Get(heap, last.g, v), p) = Ok(Int1(2))

\* C7: gradient() leaves the tree rooted at f as it was.
GradientIsPure ==
  last.op = "gradient" => Tree(heap, last.n) = Tree(last.pre, last.n)

\* C8: over integer constants, variables, Add, Sub and Mult, simplify()
\* returns a node with the value the receiver had, and the receiver and every
\* other object that existed keep their values.
SimplifyPreservesValue ==
  last.op = "simplify" =>
    /\ last.err = "none"
    /\ \A p \in FullPoints :
         /\ Agree(forward(heap, last.ret, p), forward(last.pre, last.n, p))
         /\ \A n \in 1..Len(last.pre) : Agree(forward(heap, n, p), forward(last.pre, n, p))

\* the rule of Mult.simplify fired on a shared inner product: a new product
\* of a new constant was returned
SimplifyPreservesValueWitness ==
  /\ last.op = "simplify" /\ last.err = "none"
  /\ last.ret > Len(last.pre)
  /\ heap[last.ret].kind = "Mult"
  /\ heap[heap[last.ret].a].kind = "C"
  /\ heap[heap[last.ret].a].value \notin {Int1(v) : v \in ConstVals}
  /\ heap[heap[last.ret].b].kind = "Variable"

\* n is Pow(x, C(2)) for a Variable x
IsSquare(h, n) ==
  /\ h[n].kind = "Pow"
  /\ h[h[n].a].kind = "Variable"
  /\ h[h[n].b].kind = "C" /\ h[h[n].b].value = Int1(2)

\* the value at p of the Variable object v
ValueAt(h, v, p) == p[h[v].name]

\* C5: for f = x**2, f.gradient()[x] evaluates to 2*x at every integer point;
\* it can be differentiated again, and f.gradient()[x].gradient()[x] exists
\* and evaluates to 2 at every point, x = 0 included.
SecondDerivative ==
  /\ (last.op = "gradient" /\ last.up = 0 /\ IsSquare(last.pre, last.n)) =>
       /\ last.err = "none"
       /\ Len(last.g) = 1
       /\ Variable_eq(heap, last.g[1].k, heap[last.n].a)
       /\ \A p \in FullPoints :
            forward(heap, last.g[1].v, p) =
              Arith("Mult", Int1(2), ValueAt(heap, heap[last.n].a, p))
  /\ (/\ prev.op = "gradient" /\ prev.up = 0 /\ IsSquare(prev.pre, prev.n)
      /\ last.op = "gradient" /\ last.up = 0 /\ last.n = prev.g[1].v) =>
       /\ last.err = "none"
       /\ Has(heap, last.g, prev.g[1].k)
       /\ \A p \in FullPoints :
            forward(heap, Get(heap, last.g, prev.g[1].k), p) = Ok(Int1(2))

\* the second derivative of x**2 was taken and is 2 where x = 0
SecondDerivativeWitness ==
  /\ prev.op = "gradient" /\ prev.up = 0 /\ IsSquare(prev.pre, prev.n)
  /\ last.op = "gradient" /\ last.up = 0 /\ last.n = prev.g[1].v
  /\ last.err = "none"
  /\ \E p \in FullPoints :
       /\ IsZero(ValueAt(heap, prev.g[1].k, p))
       /\ forward(heap, Get(heap, last.g, prev.g[1].k), p) = Ok(Int1(2))

\* p lacks a value for a variable of n
Lacks(h, n, p) == \E name \in VarNames(h, n) : name \notin DOMAIN p

\* C6: forward(p) fails when p lacks a value for a variable of the
\* expression; on a bare Variable the failure is the missing-key error.
ForwardNeedsEveryVariable ==
  (last.op = "forward" /\ Lacks(last.pre, last.n, last.p)) =>
    /\ last.err # "none"
    /\ last.pre[last.n].kind = "Variable" => last.err = "KeyError"

\* forward failed for the missing variable alone: the point defines the
\* other variable of a binary expression, whose evaluation would succeed
ForwardNeedsEveryVariableWitness ==
  /\ last.op = "forward" /\ Lacks(last.pre, last.n, last.p)
  /\ last.pre[last.n].kind \in BinaryKinds
  /\ DOMAIN last.p # {}
  /\ last.err = "KeyError"
  /\ \E q \in FullPoints :
       /\ \A name \in DOMAIN last.p : q[name] = last.p[name]
       /\ forward(last.pre, last.n, q).err = "none"

\* the evaluation of node m fails, and m has no free variables
FailingConstant(h, m) ==
  /\ VarNames(h, m) = {}
  /\ forward(h, m, <<>>).err \in PyErrors

\* C9: simplify() on an expression that contains a constant subtree whose
\* evaluation fails raises that failure.
FoldFailurePropagates ==
  (/\ last.op = "simplify"
   /\ \E m \in Reach(last.pre, last.n) : FailingConstant(last.pre, m))
  => last.err \in PyErrors

\* C10: when gradient() returns, its keys are exactly the variables of f,
\* one entry each, whatever the upstream factor holds.
GradientKeys ==
  (last.op = "gradient" /\ last.err = "none") =>
    /\ KeyNames(heap, last.g) = VarNames(last.pre, last.n)
    /\ KeyNames(heap, last.g) = VarNames(heap, last.n)
    /\ Len(last.g) = Cardinality(VarNames(last.pre, last.n))

\* a gradient of one of Div, Pow, Ln, Exp under an upstream factor that
\* holds a variable the expression does not
GradientKeysWitness ==
  /\ last.op = "gradient" /\ last.err = "none" /\ last.up # 0
  /\ last.pre[last.n].kind \in {"Div", "Pow", "Ln", "Exp"}
  /\ Len(last.g) > 0
  /\ ~(VarNames(last.pre, last.up) \subseteq VarNames(last.pre, last.n))

\* C3: the operator node built from a node and a literal has two nodes as
\* its children.
LiteralPromoted ==
  last.op = "literal" =>
    /\ IsNode(heap, heap[last.ret].a)
    /\ IsNode(heap, heap[last.ret].b)

====
